---- MODULE Spec2Model ----
(***************************************************************************)
(* Shipment Milestone & Order Analysis (src/app.streamlit.py).             *)
(*                                                                         *)
(* One run of the script on one uploaded workbook: the column headers are  *)
(* normalised and validated, the rows are grouped by shipment id, every    *)
(* group is sorted by arrival time (nulls last) and summarised into one    *)
(* output record, and the records are assembled into the report.           *)
(*                                                                         *)
(* Representation of text.  TLA+ strings are atomic, so a text the code    *)
(* transforms character by character (column headers: strip/lower, stop    *)
(* types: lower/upper) is a sequence of one-character strings, and a text  *)
(* the code only concatenates (labels, stop names, the order strings) is   *)
(* a string built with \o.  The arrow U+2192 of the order strings is       *)
(* written "->" and the placeholder U+2014 is written "-".                 *)
(***************************************************************************)
EXTENDS Integers, Sequences, FiniteSets, TLC

VARIABLES
  header,     \* the header row as uploaded (history, never assigned by the script)
  pc,         \* position in the script: "read", "error", "analyse", "done", "crashed"
  columns,    \* df.columns, a sequence of header texts
  df,         \* the rows of the uploaded sheet, in file order
  kind,       \* how this build's quicksort leaves rows with equal sort keys
  error,      \* what st.error has shown
  remaining,  \* the shipment ids df.groupby has still to yield
  indexer,    \* positions in df of the rows of `group`, in sorted order
  group,      \* the sorted group of the current loop iteration
  results     \* the list of output records

vars == <<header, pc, columns, df, kind, error, remaining, indexer, group, results>>

(***************************************************************************)
(* Bounds of the explored inputs.                                          *)
(***************************************************************************)
MaxRows == 3
MaxTime == 2
NumShipments == 2

(***************************************************************************)
(* Character-level string operations: str.strip, str.lower, str.upper.     *)
(***************************************************************************)
UpperAlpha ==
  <<"A", "B", "C", "D", "E", "F", "G", "H", "I", "J", "K", "L", "M",
    "N", "O", "P", "Q", "R", "S", "T", "U", "V", "W", "X", "Y", "Z">>

LowerAlpha ==
  <<"a", "b", "c", "d", "e", "f", "g", "h", "i", "j", "k", "l", "m",
    "n", "o", "p", "q", "r", "s", "t", "u", "v", "w", "x", "y", "z">>

UpperSet == {UpperAlpha[i] : i \in DOMAIN UpperAlpha}
LowerSet == {LowerAlpha[i] : i \in DOMAIN LowerAlpha}
IndexIn(alpha, c) == CHOOSE i \in DOMAIN alpha : alpha[i] = c

LowerChar(c) == IF c \in UpperSet THEN LowerAlpha[IndexIn(UpperAlpha, c)] ELSE c

UpperChar(c) == IF c \in LowerSet THEN UpperAlpha[IndexIn(LowerAlpha, c)] ELSE c

lower(s) == [i \in DOMAIN s |-> LowerChar(s[i])]

upper(s) == [i \in DOMAIN s |-> UpperChar(s[i])]

IsSpace(c) == c = " "

RECURSIVE lstrip(_)
lstrip(s) ==
  IF s # <<>> /\ IsSpace(Head(s)) THEN lstrip(Tail(s)) ELSE s

RECURSIVE rstrip(_)
rstrip(s) ==
  IF s # <<>> /\ IsSpace(s[Len(s)]) THEN rstrip(SubSeq(s, 1, Len(s) - 1)) ELSE s

strip(s) == rstrip(lstrip(s))

(* sep.join(parts) on character sequences *)
RECURSIVE JoinChars(_, _)
JoinChars(parts, sep) ==
  IF parts = <<>> THEN <<>>
  ELSE IF Len(parts) = 1 THEN parts[1]
  ELSE parts[1] \o sep \o JoinChars(Tail(parts), sep)

(* sep.join(parts) on strings *)
RECURSIVE Join(_, _)
Join(parts, sep) ==
  IF parts = <<>> THEN ""
  ELSE IF Len(parts) = 1 THEN parts[1]
  ELSE parts[1] \o sep \o Join(Tail(parts), sep)

(***************************************************************************)
(* Literals of the script.                                                 *)
(***************************************************************************)
required_cols ==
  << <<"s", "h", "i", "p", "m", "e", "n", "t", " ", "i", "d">>,
     <<"s", "t", "o", "p", " ", "t", "y", "p", "e">>,
     <<"s", "t", "o", "p", " ", "n", "a", "m", "e">>,
     <<"s", "t", "o", "p", " ", "c", "o", "u", "n", "t", "r", "y">>,
     <<"s", "t", "o", "p", " ", "a", "c", "t", "u", "a", "l", " ",
       "a", "r", "r", "i", "v", "a", "l", " ", "t", "i", "m", "e">>,
     <<"s", "t", "o", "p", " ", "a", "c", "t", "u", "a", "l", " ",
       "d", "e", "p", "a", "r", "t", "u", "r", "e", " ", "t", "i", "m", "e">>,
     <<"c", "u", "r", "r", "e", "n", "t", " ", "c", "a", "r", "r", "i", "e", "r">> >>

OriginLower == <<"o", "r", "i", "g", "i", "n">>
OriginUpper == <<"O", "R", "I", "G", "I", "N">>
DestinationLower == <<"d", "e", "s", "t", "i", "n", "a", "t", "i", "o", "n">>

Arrow == " -> "
Placeholder == "-"
CommaSpace == <<",", " ">>

NoMilestones == "No milestones received"
MissingMilestones == "Completed with missing milestones"
AllMilestones == "Completed with all milestones"

(* pandas' null (NaT / NaN) in a timestamp column; real timestamps are >= 1 *)
NaT == 0
isna(v) == v = NaT


ErrorPrefix == <<"Missing columns in uploaded file: ">>
NoError == [shown |-> FALSE, text |-> <<>>]

(***************************************************************************)
(* Header normalisation and validation (lines 17-32).                      *)
(***************************************************************************)
(* variant: the headers are lowercased but not trimmed *)
NormalizeColumnsUntrimmed(cols) == [i \in DOMAIN cols |-> lower(cols[i])]

NormalizeColumns(cols) == [i \in DOMAIN cols |-> lower(strip(cols[i]))]

missing_cols(cols) ==
  SelectSeq(required_cols, LAMBDA col : \A i \in DOMAIN cols : cols[i] # col)

ErrorMessage(missing) ==
  [shown |-> TRUE, text |-> ErrorPrefix \o JoinChars(missing, CommaSpace)]

(***************************************************************************)
(* Grouping and sorting (lines 36-39).                                     *)
(***************************************************************************)
SetMin(S) == CHOOSE x \in S : \A y \in S : x <= y
SetMax(S) == CHOOSE x \in S : \A y \in S : x >= y

RECURSIVE Ascending(_)
Ascending(S) ==
  IF S = {} THEN <<>> ELSE <<SetMin(S)>> \o Ascending(S \ {SetMin(S)})

(* df.groupby("shipment id") yields the distinct keys in ascending order *)
GroupKeys(rows) == Ascending({rows[i].sid : i \in DOMAIN rows})

(* positions in df of the rows of one shipment, in file order *)
GroupPositions(rows, key) ==
  SelectSeq([i \in DOMAIN rows |-> i], LAMBDA i : rows[i].sid = key)

(* numpy argsort(kind="quicksort") of non-null keys: ascending by key.  The *)
(* sort is not stable: where keys are equal the order is whatever the      *)
(* build's quicksort leaves, a function of the key array alone; `tie`      *)
(* names that outcome ("first": lower position first, "last": the reverse).*)
RECURSIVE argsort(_, _, _)
argsort(keys, todo, tie) ==
  IF todo = {} THEN <<>>
  ELSE LET least == SetMin({keys[i] : i \in todo})
           ties  == {i \in todo : keys[i] = least}
           pick  == IF tie = "first" THEN SetMin(ties) ELSE SetMax(ties)
       IN <<pick>> \o argsort(keys, todo \ {pick}, tie)

(* variant: na_position="first" *)
NargsortNullsFirst(items, tie) ==
  LET idx         == [i \in DOMAIN items |-> i]
      non_nan_idx == SelectSeq(idx, LAMBDA i : ~isna(items[i]))
      nan_idx     == SelectSeq(idx, LAMBDA i : isna(items[i]))
      non_nans    == [j \in DOMAIN non_nan_idx |-> items[non_nan_idx[j]]]
      order       == argsort(non_nans, DOMAIN non_nans, tie)
  IN nan_idx \o [j \in DOMAIN order |-> non_nan_idx[order[j]]]

(* pandas nargsort(..., na_position="last"): the non-null keys are sorted  *)
(* on their own, the null positions are appended in their original order.  *)
nargsort(items, tie) ==
  LET idx         == [i \in DOMAIN items |-> i]
      non_nan_idx == SelectSeq(idx, LAMBDA i : ~isna(items[i]))
      nan_idx     == SelectSeq(idx, LAMBDA i : isna(items[i]))
      non_nans    == [j \in DOMAIN non_nan_idx |-> items[non_nan_idx[j]]]
      order       == argsort(non_nans, DOMAIN non_nans, tie)
  IN [j \in DOMAIN order |-> non_nan_idx[order[j]]] \o nan_idx

(* variant: the group is left in file order *)
SortValuesSkipped(rows, tie) == rows

(* group.sort_values(by="stop actual arrival time", na_position="last")    *)
(*      .reset_index(drop=True)                                            *)
sort_values(rows, tie) ==
  LET by == nargsort([i \in DOMAIN rows |-> rows[i].arr], tie)
  IN [j \in DOMAIN by |-> rows[by[j]]]

(***************************************************************************)
(* The per-group computations of the loop body (lines 41-118).             *)
(***************************************************************************)
(* variant: a row counts as missing when its arrival alone is null *)
ArrivalMissing(g) == [i \in DOMAIN g |-> isna(g[i].arr)]

all_missing(g) == [i \in DOMAIN g |-> isna(g[i].arr) /\ isna(g[i].dep)]

milestone_status(g) ==
  IF \A i \in DOMAIN g : all_missing(g)[i] THEN NoMilestones
  ELSE IF \E i \in DOMAIN g : all_missing(g)[i] THEN MissingMilestones
  ELSE AllMilestones

dropna(g) == SelectSeq(g, LAMBDA r : ~isna(r.arr))

(* variant: equal neighbours count as out of order (>= for >) *)
OutOfOrderNonStrict(g) ==
  IF milestone_status(g) = NoMilestones THEN "Not Applicable"
  ELSE LET times == [i \in DOMAIN dropna(g) |-> dropna(g)[i].arr]
           out_of_order == \E i \in 1..(Len(times) - 1) : times[i] >= times[i + 1]
       IN IF out_of_order THEN "Yes" ELSE "No"

out_of_order_status(g) ==
  IF milestone_status(g) = NoMilestones THEN "Not Applicable"
  ELSE LET times == [i \in DOMAIN dropna(g) |-> dropna(g)[i].arr]
           out_of_order == \E i \in 1..(Len(times) - 1) : times[i] > times[i + 1]
       IN IF out_of_order THEN "Yes" ELSE "No"

StopLabel(k) == "Stop" \o ToString(k)

(* variant: only the origin is taken off the count (num_stops - 1) *)
IntendedOrderOneStopMore(g) ==
  LET num_stops == Len(g)
      others    == IF num_stops > 2 THEN num_stops - 1 ELSE 0
  IN IF others > 0
       THEN "Origin -> "
            \o Join([i \in 1..others |-> StopLabel(i)], Arrow)
            \o " -> Destination"
       ELSE "Origin -> Destination"

intended_order(g) ==
  LET num_stops == Len(g)
      others    == IF num_stops > 2 THEN num_stops - 2 ELSE 0
  IN IF others > 0
       THEN "Origin -> "
            \o Join([i \in 1..others |-> StopLabel(i)], Arrow)
            \o " -> Destination"
       ELSE "Origin -> Destination"

(* the for loop of lines 79-88 from position i on, stop_counter as it stands *)
RECURSIVE actual_labels(_, _, _)
actual_labels(stop_types, i, stop_counter) ==
  IF i > Len(stop_types) THEN <<>>
  ELSE IF lower(stop_types[i]) = OriginLower
    THEN <<"Origin">> \o actual_labels(stop_types, i + 1, stop_counter)
  ELSE IF lower(stop_types[i]) = DestinationLower
    THEN <<"Destination">> \o actual_labels(stop_types, i + 1, stop_counter)
  ELSE <<StopLabel(stop_counter)>>
       \o actual_labels(stop_types, i + 1, stop_counter + 1)

(* variant: stop_counter advances on every row of the loop *)
RECURSIVE LabelsCountingEveryRow(_, _)
LabelsCountingEveryRow(stop_types, i) ==
  IF i > Len(stop_types) THEN <<>>
  ELSE IF lower(stop_types[i]) = OriginLower
    THEN <<"Origin">> \o LabelsCountingEveryRow(stop_types, i + 1)
  ELSE IF lower(stop_types[i]) = DestinationLower
    THEN <<"Destination">> \o LabelsCountingEveryRow(stop_types, i + 1)
  ELSE <<StopLabel(i)>> \o LabelsCountingEveryRow(stop_types, i + 1)

ExactOrderCountingEveryRow(g) ==
  LET visited_group == dropna(g)
      stop_types    == [i \in DOMAIN visited_group |-> visited_group[i].type]
      labels        == LabelsCountingEveryRow(stop_types, 1)
  IN IF labels # <<>> THEN Join(labels, Arrow) ELSE Placeholder

(* variant: the rows without an arrival time are labelled too *)
ExactOrderOfEveryRow(g) ==
  LET stop_types == [i \in DOMAIN g |-> g[i].type]
      labels     == actual_labels(stop_types, 1, 1)
  IN IF labels # <<>> THEN Join(labels, Arrow) ELSE Placeholder

exact_order(g) ==
  LET visited_group == dropna(g)
      stop_types    == [i \in DOMAIN visited_group |-> visited_group[i].type]
      labels        == actual_labels(stop_types, 1, 1)
  IN IF labels # <<>> THEN Join(labels, Arrow) ELSE Placeholder

(* variant: a stop is missed only when both timestamps are null *)
MissedStopsBothNull(g) ==
  LET missedRows == SelectSeq(g, LAMBDA r : isna(r.arr) /\ isna(r.dep))
      missed     == [i \in DOMAIN missedRows |-> missedRows[i].name]
  IN IF missed # <<>> THEN Join(missed, ", ") ELSE Placeholder

missed_stops(g) ==
  LET missedRows == SelectSeq(g, LAMBDA r : isna(r.arr) \/ isna(r.dep))
      missed     == [i \in DOMAIN missedRows |-> missedRows[i].name]
  IN IF missed # <<>> THEN Join(missed, ", ") ELSE Placeholder

(* variant: the origin is looked up among the visited rows only *)
OriginLocationAmongVisited(g) ==
  LET origin_row == SelectSeq(dropna(g), LAMBDA r : upper(r.type) = OriginUpper)
  IN IF origin_row # <<>> THEN origin_row[1].name ELSE Placeholder

origin_location(g) ==
  LET origin_row == SelectSeq(g, LAMBDA r : upper(r.type) = OriginUpper)
  IN IF origin_row # <<>> THEN origin_row[1].name ELSE Placeholder

OutputRecord(key, g) ==
  [ShipmentID      |-> key,
   OriginLocation  |-> origin_location(g),
   NumberOfStops   |-> Len(g),
   Carrier         |-> g[1].carrier,
   MilestoneStatus |-> milestone_status(g),
   OutOfOrder      |-> out_of_order_status(g),
   IntendedOrder   |-> intended_order(g),
   ExactOrder      |-> exact_order(g),
   MissedStops     |-> missed_stops(g)]

(***************************************************************************)
(* The uploaded workbooks explored.                                        *)
(*                                                                         *)
(* Headers: any subset of the required columns may be absent; the ones     *)
(* present are spelled either exactly or with padding and capitals, and an *)
(* unrelated column follows them.                                          *)
(*                                                                         *)
(* Rows: at most MaxRows rows of at most NumShipments shipments,           *)
(* timestamps null or in 1..MaxTime.  The stop name and the carrier of a   *)
(* row identify its position in the file, so that an output names the row  *)
(* it was taken from.  Three families of tables are explored, each varying *)
(* two columns freely:                                                     *)
(*   TypedTables      stop type x arrival; one shipment, a stop has        *)
(*                    departed exactly when it has arrived;                *)
(*   DepartureTables  arrival x departure; one shipment, the stop types    *)
(*                    follow a fixed pattern;                              *)
(*   ShipmentTables   shipment id x arrival; the stop types follow the     *)
(*                    pattern, departed exactly when arrived.              *)
(* Header variation is crossed with the typed tables of at most one row,   *)
(* row variation is explored under the exact headers.                      *)
(* Shipment ids, stop types and stop names are non-null text or numbers,   *)
(* and no two headers normalise to the same name.                          *)
(***************************************************************************)
MessyHeaders ==
  << <<" ", "S", "h", "i", "p", "m", "e", "n", "t", " ", "I", "D">>,
     <<"S", "t", "o", "p", " ", "T", "y", "p", "e", " ">>,
     <<"S", "T", "O", "P", " ", "N", "A", "M", "E">>,
     <<" ", " ", "S", "t", "o", "p", " ", "C", "o", "u", "n", "t", "r", "y", " ", " ">>,
     <<"S", "t", "o", "p", " ", "A", "c", "t", "u", "a", "l", " ",
       "A", "r", "r", "i", "v", "a", "l", " ", "T", "i", "m", "e">>,
     <<" ", "s", "t", "o", "p", " ", "a", "c", "t", "u", "a", "l", " ",
       "d", "e", "p", "a", "r", "t", "u", "r", "e", " ", "t", "i", "m", "e", " ">>,
     <<"C", "U", "R", "R", "E", "N", "T", " ", "C", "A", "R", "R", "I", "E", "R", " ">> >>

ExtraHeader == <<"N", "o", "t", "e", "s">>

HeaderRow(absent, messy) ==
  SelectSeq(IF messy THEN MessyHeaders ELSE required_cols,
            LAMBDA h : \A i \in absent :
                         h # MessyHeaders[i] /\ h # required_cols[i])
  \o <<ExtraHeader>>

ExactHeaders == HeaderRow({}, FALSE)

HeaderInputs ==
  {HeaderRow(absent, messy) : absent \in SUBSET DOMAIN required_cols,
                              messy \in BOOLEAN}

TypeOrigin == <<"O", "r", "i", "g", "i", "n">>
TypeDestination == <<"D", "e", "s", "t", "i", "n", "a", "t", "i", "o", "n">>
TypeStop == <<"S", "t", "o", "p">>
StopTypes == {TypeOrigin, TypeDestination, TypeStop}

TypePattern == <<OriginUpper, <<"P", "i", "c", "k", "u", "p">>, DestinationLower>>
PatternType(i) == TypePattern[((i - 1) % Len(TypePattern)) + 1]

Times == 1..MaxTime
ShipmentIds == 1..NumShipments
Timestamps == {NaT} \cup Times

InputRow(i, sid, type, arr, dep) ==
  [sid |-> sid, type |-> type, name |-> "P" \o ToString(i),
   arr |-> arr, dep |-> dep, carrier |-> "K" \o ToString(i)]

TypedTable(n, types, arrs) ==
  [i \in 1..n |-> InputRow(i, 1, types[i], arrs[i], arrs[i])]

DepartureTable(n, arrs, departed) ==
  [i \in 1..n |->
     InputRow(i, 1, PatternType(i), arrs[i],
              IF ~departed[i] THEN NaT
              ELSE IF isna(arrs[i]) THEN 1 ELSE arrs[i])]

ShipmentTable(n, sids, arrs) ==
  [i \in 1..n |-> InputRow(i, sids[i], PatternType(i), arrs[i], arrs[i])]

TieOrders == {"first", "last"}

(* two rows of one shipment carry the same non-null arrival time; without  *)
(* such rows the sort has one outcome, and "first" stands for it           *)
HasEqualKeys(rows) ==
  \E i, j \in DOMAIN rows :
    i < j /\ rows[i].sid = rows[j].sid /\ ~isna(rows[i].arr) /\ rows[i].arr = rows[j].arr

(***************************************************************************)
(* The run.                                                                *)
(***************************************************************************)
(* after pd.read_excel (line 15) *)
InitTyped ==
  \E n \in 0..MaxRows :
    \E types \in [1..n -> StopTypes], arrs \in [1..n -> Timestamps] :
      /\ df = TypedTable(n, types, arrs)
      /\ columns \in (IF n <= 1 THEN HeaderInputs ELSE {ExactHeaders})

InitDeparture ==
  \E n \in 0..MaxRows :
    \E arrs \in [1..n -> Timestamps], departed \in [1..n -> BOOLEAN] :
      /\ df = DepartureTable(n, arrs, departed)
      /\ columns = ExactHeaders

InitShipment ==
  \E n \in 0..MaxRows :
    \E sids \in [1..n -> ShipmentIds], arrs \in [1..n -> Timestamps] :
      /\ df = ShipmentTable(n, sids, arrs)
      /\ columns = ExactHeaders

Init ==
  /\ pc = "read"
  /\ (InitTyped \/ InitDeparture \/ InitShipment)
  /\ header = columns
  /\ kind \in (IF HasEqualKeys(df) THEN TieOrders ELSE {"first"})
  /\ error = NoError
  /\ remaining = <<>>
  /\ indexer = <<>>
  /\ group = <<>>
  /\ results = <<>>

(* lines 18-32: normalise the headers; a required column is missing *)
ReportMissing ==
  /\ pc = "read"
  /\ missing_cols(NormalizeColumns(columns)) # <<>>
  /\ columns' = NormalizeColumns(columns)
  /\ error' = ErrorMessage(missing_cols(columns'))
  /\ pc' = "error"
  /\ UNCHANGED <<header, df, kind, remaining, indexer, group, results>>

(* lines 18-36: normalise the headers; none is missing, the loop starts *)
BeginAnalysis ==
  /\ pc = "read"
  /\ missing_cols(NormalizeColumns(columns)) = <<>>
  /\ columns' = NormalizeColumns(columns)
  /\ results' = <<>>
  /\ remaining' = GroupKeys(df)
  /\ pc' = "analyse"
  /\ UNCHANGED <<header, df, kind, error, indexer, group>>

(* lines 36-118: one iteration of the loop over the groups *)
ProcessGroup ==
  /\ pc = "analyse"
  /\ remaining # <<>>
  /\ LET key  == Head(remaining)
         pos  == GroupPositions(df, key)
         rows == [j \in DOMAIN pos |-> df[pos[j]]]
         by   == nargsort([j \in DOMAIN rows |-> rows[j].arr], kind)
     IN /\ indexer' = [j \in DOMAIN by |-> pos[by[j]]]
        /\ group' = sort_values(rows, kind)
        /\ results' = Append(results, OutputRecord(key, group'))
  /\ remaining' = Tail(remaining)
  /\ UNCHANGED <<header, pc, columns, df, kind, error>>

(* lines 120-144: the report is built, shown and offered for download *)
BuildReport ==
  /\ pc = "analyse"
  /\ remaining = <<>>
  /\ results # <<>>
  /\ pc' = "done"
  /\ UNCHANGED <<header, columns, df, kind, error, remaining, indexer, group, results>>

(* lines 120-124: with no record the frame has no column "Intended Order", *)
(* and result_df[col] raises KeyError                                      *)
BuildReportFails ==
  /\ pc = "analyse"
  /\ remaining = <<>>
  /\ results = <<>>
  /\ pc' = "crashed"
  /\ UNCHANGED <<header, columns, df, kind, error, remaining, indexer, group, results>>

Next ==
  \/ ReportMissing
  \/ BeginAnalysis
  \/ ProcessGroup
  \/ BuildReport
  \/ BuildReportFails

Spec == Init /\ [][Next]_vars

(***************************************************************************)
(* Properties.                                                             *)
(*                                                                         *)
(* `rec` is the record of the iteration that has just run, `group` its     *)
(* sorted group and `raw` the rows of that shipment in file order.  Every  *)
(* record is the latest one in the state after its iteration, and no       *)
(* action changes a record once appended, so a property of the latest      *)
(* record in the states of the loop is a property of every record.         *)
(***************************************************************************)
Produced == pc = "analyse" /\ results # <<>>
rec == results[Len(results)]
raw == SelectSeq(df, LAMBDA r : r.sid = rec.ShipmentID)

SameLetter(c, d) ==
  \/ c = d
  \/ \E k \in DOMAIN UpperAlpha : {c, d} = {UpperAlpha[k], LowerAlpha[k]}

EqualsIgnoringCase(a, b) ==
  Len(a) = Len(b) /\ \A i \in DOMAIN a : SameLetter(a[i], b[i])

(* h is `name` up to surrounding blanks and letter case *)
Spells(h, name) ==
  \E lead \in 0..(Len(h) - Len(name)) :
    /\ \A i \in 1..lead : h[i] = " "
    /\ \A i \in (lead + Len(name) + 1)..Len(h) : h[i] = " "
    /\ \A i \in DOMAIN name : SameLetter(h[lead + i], name[i])

AbsentRequired ==
  SelectSeq(required_cols,
            LAMBDA name : \A i \in DOMAIN header : ~Spells(header[i], name))

FullyMissing(r) == r.arr = NaT /\ r.dep = NaT
Visited(r) == r.arr # NaT
IsOriginRow(r) == EqualsIgnoringCase(r.type, OriginLower)
IsDestinationRow(r) == EqualsIgnoringCase(r.type, DestinationLower)
IsIntermediateRow(r) == ~IsOriginRow(r) /\ ~IsDestinationRow(r)

(* C1: once the headers are validated, if a required field is absent after *)
(* trimming and lowercasing, the error lists exactly the absent required   *)
(* names and no output record is ever produced; if none is absent, no      *)
(* missing-fields error is reported.                                       *)
C1_MissingFieldsReported ==
  pc # "read" =>
    IF AbsentRequired # <<>>
      THEN /\ pc = "error"
           /\ error.shown
           /\ error.text = ErrorPrefix \o JoinChars(AbsentRequired, CommaSpace)
           /\ results = <<>>
      ELSE ~error.shown /\ pc # "error"

C1_Witness ==
  /\ pc = "error"
  /\ Len(AbsentRequired) = 2
  /\ header # NormalizeColumns(header)
  /\ df # <<>>

(* C2: the milestone status is "No milestones received" exactly when all   *)
(* rows of the shipment are fully missing, "Completed with missing         *)
(* milestones" exactly when some but not all are, and "Completed with all  *)
(* milestones" otherwise.                                                  *)
C2_MilestoneStatus ==
  Produced =>
    LET all  == \A i \in DOMAIN raw : FullyMissing(raw[i])
        some == \E i \in DOMAIN raw : FullyMissing(raw[i])
    IN /\ rec.MilestoneStatus = NoMilestones <=> all
       /\ rec.MilestoneStatus = MissingMilestones <=> (some /\ ~all)
       /\ rec.MilestoneStatus = AllMilestones <=> ~some
       /\ (\A i \in DOMAIN raw : raw[i].arr # NaT /\ raw[i].dep # NaT)
            => rec.MilestoneStatus = AllMilestones

C2_Witness ==
  /\ Produced
  /\ rec.MilestoneStatus = AllMilestones
  /\ \E i \in DOMAIN raw : raw[i].arr = NaT
  /\ \E i \in DOMAIN raw : raw[i].dep = NaT

(* C3: the out-of-order flag is "Not Applicable" exactly when the status   *)
(* is "No milestones received"; otherwise it is "Yes" if some adjacent     *)
(* pair of the non-null arrival times, in sorted group order, is strictly  *)
(* decreasing, and "No" if there is none.                                  *)
ArrivalsInGroupOrder ==
  LET seen == SelectSeq(group, Visited) IN [i \in DOMAIN seen |-> seen[i].arr]

C3_OutOfOrderFlag ==
  Produced =>
    LET t == ArrivalsInGroupOrder
        decreasing == \E i \in DOMAIN t : i < Len(t) /\ t[i] > t[i + 1]
    IN /\ rec.OutOfOrder = "Not Applicable" <=> rec.MilestoneStatus = NoMilestones
       /\ (\A i \in DOMAIN raw : FullyMissing(raw[i]))
            => rec.MilestoneStatus = NoMilestones /\ rec.OutOfOrder = "Not Applicable"
       /\ rec.MilestoneStatus # NoMilestones
            => rec.OutOfOrder = (IF decreasing THEN "Yes" ELSE "No")

C3_Witness ==
  /\ Produced
  /\ rec.OutOfOrder = "No"
  /\ Len(ArrivalsInGroupOrder) >= 2
  /\ \E i \in DOMAIN ArrivalsInGroupOrder :
       i < Len(ArrivalsInGroupOrder)
       /\ ArrivalsInGroupOrder[i] = ArrivalsInGroupOrder[i + 1]

(* C4: the sorted group is a permutation of exactly the input rows of the  *)
(* shipment: the rows with an arrival time come first, in ascending order  *)
(* of it, the rows without come after all of them, in their input order.   *)
C4_GroupSorted ==
  Produced =>
    LET mine == {i \in DOMAIN df : df[i].sid = rec.ShipmentID}
    IN /\ Len(indexer) = Cardinality(mine)
       /\ {indexer[j] : j \in DOMAIN indexer} = mine
       /\ Len(group) = Len(indexer)
       /\ \A j \in DOMAIN group : group[j] = df[indexer[j]]
       /\ \A j, k \in DOMAIN group :
            j < k =>
              /\ Visited(group[k]) => Visited(group[j])
              /\ Visited(group[j]) /\ Visited(group[k])
                   => group[j].arr <= group[k].arr
              /\ ~Visited(group[j]) /\ ~Visited(group[k])
                   => indexer[j] < indexer[k]

C4_Witness ==
  /\ Produced
  /\ Len(group) = 3
  /\ Visited(group[1]) /\ ~Visited(group[2]) /\ ~Visited(group[3])
  /\ indexer = <<3, 1, 2>>

(* C5: the Exact Order labels exactly the rows with an arrival time, in    *)
(* sorted group order: "Origin" and "Destination" by stop type whatever    *)
(* its letter case, and the k-th other row "Stopk", k counting from 1 over *)
(* the other rows only; the labels are joined by the arrow, and the result *)
(* is the placeholder exactly when no row has an arrival time.             *)
VisitedInGroupOrder == SelectSeq(group, Visited)

LabelOfVisited(j) ==
  LET v == VisitedInGroupOrder
  IN IF IsOriginRow(v[j]) THEN "Origin"
     ELSE IF IsDestinationRow(v[j]) THEN "Destination"
     ELSE "Stop" \o ToString(
            Cardinality({i \in 1..j : IsIntermediateRow(v[i])}))

C5_ExactOrder ==
  Produced =>
    /\ VisitedInGroupOrder # <<>>
         => rec.ExactOrder =
              Join([j \in DOMAIN VisitedInGroupOrder |-> LabelOfVisited(j)], Arrow)
    /\ rec.ExactOrder = Placeholder <=> VisitedInGroupOrder = <<>>

C5_Witness ==
  /\ Produced
  /\ rec.ExactOrder = "Stop1 -> Origin -> Stop2"
  /\ Len(group) = 3

(* C6: adding to the shipment, at any input position, a row of any stop    *)
(* type whose arrival and departure are both null leaves the Exact Order   *)
(* unchanged.                                                              *)
InsertAt(rows, p, r) == SubSeq(rows, 1, p) \o <<r>> \o SubSeq(rows, p + 1, Len(rows))

FullyMissingRow(type) ==
  [sid |-> rec.ShipmentID, type |-> type, name |-> "extra",
   arr |-> NaT, dep |-> NaT, carrier |-> "extra"]

C6_FullyMissingRowKeepsExactOrder ==
  Produced =>
    \A type \in StopTypes :
      \A p \in 0..Len(raw) :
        exact_order(sort_values(InsertAt(raw, p, FullyMissingRow(type)), kind))
          = rec.ExactOrder

C6_Witness ==
  /\ Produced
  /\ Len(VisitedInGroupOrder) = 2
  /\ Len(group) = 3
  /\ group[1].arr = group[2].arr
  /\ IsOriginRow(group[3])
  /\ rec.ExactOrder = "Stop1 -> Destination"

(* C7: the Intended Order depends on the number N of rows of the shipment  *)
(* alone: "Origin", Stop1 .. Stop(N-2), "Destination" (N labels) when      *)
(* N > 2 and "Origin -> Destination" when N <= 2, so that records with the *)
(* same N carry the same Intended Order.                                   *)
IntendedLabels(n) ==
  [k \in 1..n |-> IF k = 1 THEN "Origin"
                  ELSE IF k = n THEN "Destination"
                  ELSE "Stop" \o ToString(k - 1)]

RowsOf(sid) == Cardinality({i \in DOMAIN df : df[i].sid = sid})

C7_IntendedOrder ==
  Produced =>
    /\ \A i \in DOMAIN results :
         LET n == RowsOf(results[i].ShipmentID)
         IN results[i].IntendedOrder =
              (IF n > 2 THEN Join(IntendedLabels(n), Arrow)
               ELSE "Origin -> Destination")
    /\ \A i, j \in DOMAIN results :
         RowsOf(results[i].ShipmentID) = RowsOf(results[j].ShipmentID)
           => results[i].IntendedOrder = results[j].IntendedOrder

C7_Witness ==
  /\ Produced
  /\ Len(group) = 3
  /\ \A j \in DOMAIN group : IsIntermediateRow(group[j]) /\ ~Visited(group[j])
  /\ rec.IntendedOrder = "Origin -> Stop1 -> Destination"

(* C8: Missed Stops lists the stop names of exactly the rows whose arrival *)
(* or departure is null, one per row in sorted group order, joined by      *)
(* ", "; it is the placeholder exactly when every row has both.            *)
MissedInGroupOrder ==
  SelectSeq(group, LAMBDA r : r.arr = NaT \/ r.dep = NaT)

C8_MissedStops ==
  Produced =>
    /\ MissedInGroupOrder # <<>>
         => rec.MissedStops =
              Join([j \in DOMAIN MissedInGroupOrder |-> MissedInGroupOrder[j].name],
                   ", ")
    /\ rec.MissedStops = Placeholder
         <=> \A j \in DOMAIN group : group[j].arr # NaT /\ group[j].dep # NaT

C8_Witness ==
  /\ Produced
  /\ Len(group) = 3
  /\ rec.MissedStops = "P3, P1"
  /\ Visited(group[1]) /\ group[1].dep = NaT
  /\ ~Visited(group[3]) /\ group[3].dep # NaT

(* C9: the Origin Location is the stop name of the first row, in sorted    *)
(* group order, whose stop type is "ORIGIN" whatever its letter case, and  *)
(* the placeholder exactly when there is no such row; an Origin row with a *)
(* null arrival is selected all the same.                                  *)
OriginRowsInGroupOrder == SelectSeq(group, IsOriginRow)

C9_OriginLocation ==
  Produced =>
    /\ OriginRowsInGroupOrder # <<>>
         => rec.OriginLocation = OriginRowsInGroupOrder[1].name
    /\ rec.OriginLocation = Placeholder <=> OriginRowsInGroupOrder = <<>>

C9_Witness ==
  /\ Produced
  /\ Len(group) = 3
  /\ Visited(group[1]) /\ Visited(group[2])
  /\ IsOriginRow(group[3]) /\ ~Visited(group[3])
  /\ rec.OriginLocation = group[3].name

(* C10: the out-of-order flag of a record is never "Yes", whatever the     *)
(* input: it is "Not Applicable" or "No".                                  *)
C10_NeverOutOfOrder ==
  \A i \in DOMAIN results : results[i].OutOfOrder \in {"Not Applicable", "No"}

C10_Witness ==
  /\ Produced
  /\ Len(group) = 3
  /\ rec.OutOfOrder = "No"
  /\ Visited(group[1]) /\ Visited(group[2]) /\ ~Visited(group[3])
  /\ group[1].arr < group[2].arr
  /\ indexer[1] > indexer[2]
====
